---- MODULE Spec2Model ----
(***************************************************************************)
(* HermesClient (src/src/hermes-client.ts): the run/stop lifecycle of      *)
(* start(), the self-rescheduling update cycle and the decision whether a  *)
(* fetched quote is submitted to the contract.                             *)
(*                                                                         *)
(* JavaScript runs one task at a time: every action below is the code that *)
(* runs between two suspension points (an await on a collaborator, a timer *)
(* or an abort event).  A promise continuation is taken together with the  *)
(* completion that settles the promise.                                    *)
(***************************************************************************)
EXTENDS Integers, FiniteSets, Sequences, TLC

\* ------------------------------------------------------------------ bounds

\* start() calls issued on the one client
MaxStarts == 2
\* timer firings that begin a cycle
MaxTimerCycles == 1

Calls == 1..MaxStarts

\* ----------------------------------------------------------- data values

\* A price as the collaborators report it: the decimal string m of
\* price.price (an integer) and the exponent e of price.expo.
\* The prices the scheduled cycles are given:
Prices == { [m |-> 1, e |-> 0], [m |-> 20, e |-> -1] }

\* publish_time: two values are enough to be older, equal or newer
PublishTimes == {1, 2}

\* PythPriceData.price / PriceResponse: price, expo, publish_time
Quotes == { [m |-> p.m, e |-> p.e, pt |-> t] : p \in Prices, t \in PublishTimes }

\* priceDeviationTolerance: value is the decimal m * 10^e that parseFloat
\* reads from the configuration; percentage values are in percent.  "other"
\* stands for any type string that is neither "absolute" nor "percentage".
DEFAULT_PRICE_DEVIATION_TOLERANCE ==
    [type |-> "absolute", value |-> [m |-> 0, e |-> 0]]
Tolerances ==
    { DEFAULT_PRICE_DEVIATION_TOLERANCE,
      [type |-> "absolute", value |-> [m |-> 1, e |-> 0]],
      [type |-> "percentage", value |-> [m |-> 50, e |-> 0]],
      [type |-> "other", value |-> [m |-> 0, e |-> 0]] }

\* The prices and tolerances the decision is tabulated for: those above and
\* 0, 0.1, 0.2, 0.3 (as 3 * 10^-1 and as 30 * 10^-2), 3 and 3.3
DecisionPrices ==
    Prices \cup
    { [m |-> 0, e |-> 0], [m |-> 1, e |-> -1], [m |-> 2, e |-> -1],
      [m |-> 3, e |-> -1], [m |-> 30, e |-> -2], [m |-> 3, e |-> 0],
      [m |-> 33, e |-> -1] }
DecisionQuotes ==
    { [m |-> p.m, e |-> p.e, pt |-> t] : p \in DecisionPrices, t \in PublishTimes }
DecisionTolerances ==
    Tolerances \cup
    { [type |-> "absolute", value |-> [m |-> 1, e |-> -1]],
      [type |-> "percentage", value |-> [m |-> 0, e |-> 0]],
      [type |-> "percentage", value |-> [m |-> 10, e |-> 0]],
      [type |-> "percentage", value |-> [m |-> 100, e |-> 0]] }

\* ------------------------------------------------------------- variables

VARIABLES
    isRunning,      \* #isRunning
    updateTimer,    \* #updateTimer: 0 (undefined) or the chain whose timer it holds
    senderAddress,  \* #senderAddress is set
    cosmClient,     \* #cosmClient is set
    priceFeedId,    \* #priceFeedId is set
    tolerance,      \* #config.priceDeviationTolerance
    aborted,        \* aborted[c]: the signal handed to the c-th start() has fired
    nCalls,         \* start() calls issued so far
    timerCycles,    \* cycles begun by a timer firing
    initCalls,      \* initialize() calls made by start()
    lastOutcome,    \* how the cycle that ended last ended (what it logged)
    chain,          \* chain[c]: the c-th start() call and the updatePrice closure it made
    decision,       \* the last direct call of #canIgnorePriceUpdate: arguments, result
    response,       \* the last request to the daemon's server and its answer
    daemon          \* daemonCommand(config): where it is, and its http server

vars == <<isRunning, updateTimer, senderAddress, cosmClient, priceFeedId,
          tolerance, aborted, nCalls, timerCycles, initCalls, lastOutcome, chain,
          decision, response, daemon>>

\* Every start() call is handed a signal of its own, which may have fired
\* before the call.  (Two calls sharing one signal behave as two calls whose
\* signals fire together: the listeners all do the same.)
\*
\* pc of a start() call / its closure
\*   "none"          not called yet
\*   "returned"      returned at once: the client was already running
\*   "init_wallet"   in initialize(), awaiting createWallet / getAccounts
\*   "init_connect"  in initialize(), awaiting connectWithSigner
\*   "init_feed"     in initialize(), awaiting queryContractSmart(get_config)
\*   "rejected"      start() threw (initialization failed)
\*   "thrown"        updatePrice() rejected before its first await
\*   "fetch"         cycle awaiting the Hermes fetch
\*   "query"         cycle awaiting queryCurrentPrice
\*   "config"        cycle awaiting queryContractSmart(get_config)
\*   "submit"        cycle awaiting execute(update_price_feed)
\*   "timer"         setTimeout(updatePrice) pending
\*   "cancelled"     its pending timer was cleared by clearTimeout
\*   "dead"          the closure returned without arming a timer
\* result of the start() call: "none", "pending", "resolved", "rejected"
InitPcs == {"init_wallet", "init_connect", "init_feed"}
CyclePcs == {"thrown", "fetch", "query", "config", "submit"}

\* listening: its abort listener is registered and has not run
NoChain == [pc |-> "none", result |-> "none", listening |-> FALSE]

\* no direct call of the decision yet
NoDecision ==
    [made |-> FALSE, newPrice |-> [m |-> 0, e |-> 0, pt |-> 1],
     currentPrice |-> [m |-> 0, e |-> 0, pt |-> 1], result |-> "none"]

\* daemonCommand has not been called.  pc is where the call is:
\*   "none"      not called
\*   "create"    awaiting config.createHermesClient(config)
\*   "start"     awaiting client.start({signal: config.signal})
\*   "serving"   the server listens; awaiting once(server, "close")
\*   "returned"  the call returned
\*   "rejected"  the call threw
\* listener: `abort` is registered on config.signal and has not run;
\* listening: server.listening; closing: a "close" event of the server is due
NoDaemon == [pc |-> "none", listener |-> FALSE, listening |-> FALSE, closing |-> FALSE]

\* no request to the daemon's server yet
NoResponse ==
    [made |-> FALSE, method |-> "none", url |-> "none",
     code |-> 0, contentType |-> "none", body |-> "none"]

\* new HermesClient(config) or HermesClient.connect(config), with a
\* tolerance of the set tols
Constructed(tols) ==
    /\ isRunning = FALSE
    /\ updateTimer = 0
    /\ \E connected \in BOOLEAN :
         /\ senderAddress = connected
         /\ cosmClient = connected
         /\ priceFeedId = connected
    /\ tolerance \in tols
    /\ aborted = [c \in Calls |-> FALSE]
    /\ nCalls = 0
    /\ timerCycles = 0
    /\ initCalls = 0
    /\ lastOutcome = "none"
    /\ chain = [c \in Calls |-> NoChain]
    /\ decision = NoDecision
    /\ response = NoResponse
    /\ daemon = NoDaemon

Init == Constructed(Tolerances)

\* ---------------------------------------------- Number arithmetic (binary64)
\* price values are JavaScript Numbers: every operation rounds its exact
\* result to the nearest binary64 value, ties to even.

\* ------------------------------------------------ natural numbers by limbs
\* A natural number is the sequence of its digits in base Base, least
\* significant first, without leading zero digits (0 is <<>>).
Pow2(k) == 2 ^ k
LimbBits == 15
Base == Pow2(LimbBits)

RECURSIVE BNorm(_)
BNorm(a) ==
    IF a = <<>> THEN a
    ELSE IF a[Len(a)] = 0 THEN BNorm(SubSeq(a, 1, Len(a) - 1)) ELSE a

BOfInt(n) ==
    BNorm(<<n % Base, (n \div Base) % Base, n \div (Base * Base)>>)

RECURSIVE BCmpAt(_, _, _)
BCmpAt(a, b, i) ==
    IF i = 0 THEN 0
    ELSE IF a[i] < b[i] THEN -1
    ELSE IF a[i] > b[i] THEN 1
    ELSE BCmpAt(a, b, i - 1)

\* -1, 0, 1 as a < b, a = b, a > b
BCmp(a, b) ==
    IF Len(a) < Len(b) THEN -1
    ELSE IF Len(a) > Len(b) THEN 1
    ELSE BCmpAt(a, b, Len(a))

Limb(a, i) == IF i <= Len(a) THEN a[i] ELSE 0
Max2(a, b) == IF a >= b THEN a ELSE b

RECURSIVE BAddAt(_, _, _, _)
BAddAt(a, b, i, carry) ==
    IF i > Max2(Len(a), Len(b))
    THEN IF carry = 0 THEN <<>> ELSE <<carry>>
    ELSE LET s == Limb(a, i) + Limb(b, i) + carry
         IN  <<s % Base>> \o BAddAt(a, b, i + 1, s \div Base)

BAdd(a, b) == BAddAt(a, b, 1, 0)

RECURSIVE BSubAt(_, _, _, _)
BSubAt(a, b, i, borrow) ==
    IF i > Len(a) THEN <<>>
    ELSE LET s == a[i] - Limb(b, i) - borrow
         IN  <<s % Base>> \o BSubAt(a, b, i + 1, IF s < 0 THEN 1 ELSE 0)

\* a - b for a >= b
BSub(a, b) == BNorm(BSubAt(a, b, 1, 0))

RECURSIVE BMulSmallAt(_, _, _, _)
BMulSmallAt(a, k, i, carry) ==
    IF i > Len(a)
    THEN IF carry = 0 THEN <<>> ELSE <<carry>>
    ELSE LET s == a[i] * k + carry
         IN  <<s % Base>> \o BMulSmallAt(a, k, i + 1, s \div Base)

\* a * k for 0 <= k < Base
BMulSmall(a, k) == IF k = 0 THEN <<>> ELSE BMulSmallAt(a, k, 1, 0)

\* a * Base^n
BShiftLimbs(a, n) == IF a = <<>> THEN a ELSE [i \in 1..n |-> 0] \o a

RECURSIVE BMulAt(_, _, _)
BMulAt(a, b, i) ==
    IF i > Len(b) THEN <<>>
    ELSE BAdd(BShiftLimbs(BMulSmall(a, b[i]), i - 1), BMulAt(a, b, i + 1))

BMul(a, b) == BMulAt(a, b, 1)

\* a * 2^k
BShl(a, k) == BShiftLimbs(BMulSmall(a, Pow2(k % LimbBits)), k \div LimbBits)

RECURSIVE BDivSmallAt(_, _, _, _)
BDivSmallAt(a, k, i, rem) ==
    IF i = 0 THEN <<>>
    ELSE LET s == rem * Base + a[i]
         IN  BDivSmallAt(a, k, i - 1, s % k) \o <<s \div k>>

\* floor(a / k) for 0 < k < Base
BDivSmall(a, k) == BNorm(BDivSmallAt(a, k, Len(a), 0))

\* floor(a / 2^k)
BShr(a, k) ==
    IF k \div LimbBits >= Len(a) THEN <<>>
    ELSE BDivSmall(SubSeq(a, 1 + k \div LimbBits, Len(a)), Pow2(k % LimbBits))

\* the number of binary digits of a
BitLen(a) ==
    IF a = <<>> THEN 0
    ELSE LimbBits * (Len(a) - 1)
         + (CHOOSE k \in 1..LimbBits : Pow2(k - 1) <= a[Len(a)] /\ a[Len(a)] < Pow2(k))

\* <<digit j of floor(n / d), what is left of n>>, binary digits bit..0 of
\* the digit still to find, for n < d * Base^j * 2^(bit + 1)
RECURSIVE BDivDigit(_, _, _, _, _)
BDivDigit(n, d, j, bit, digit) ==
    IF bit < 0 THEN <<digit, n>>
    ELSE LET dk == BShl(d, LimbBits * j + bit)
         IN  IF BCmp(dk, n) <= 0
             THEN BDivDigit(BSub(n, dk), d, j, bit - 1, digit + Pow2(bit))
             ELSE BDivDigit(n, d, j, bit - 1, digit)

RECURSIVE BDivAt(_, _, _)
BDivRest(r, d, j) == BDivAt(r[2], d, j - 1) \o <<r[1]>>
BDivAt(n, d, j) ==
    IF j < 0 THEN <<>> ELSE BDivRest(BDivDigit(n, d, j, LimbBits - 1, 0), d, j)

\* floor(n / d) for d > 0
BDiv(n, d) ==
    BNorm(BDivAt(n, d, Max2(BitLen(n) - BitLen(d), 0) \div LimbBits))

\* --------------------------------------------------------- binary64 values
\* A finite Number is sign * m * 2^x with m = 0 or 2^52 <= m < 2^53.
\* (Subnormal and infinite values are out of the reach of the inputs.)
Precision == 53
Zero == [neg |-> FALSE, m |-> <<>>, x |-> 0]

\* q * 2^x, plus a nonzero part below the last digit of q if sticky,
\* rounded to the nearest Number, ties to the even m
RoundBig(q, sticky, x, neg) ==
    LET L == BitLen(q)
        k == L - Precision
    IN  IF q = <<>> THEN Zero
        ELSE IF k <= 0 THEN [neg |-> neg, m |-> BShl(q, -k), x |-> x + k]
        ELSE LET m0   == BShr(q, k)
                 rest == BSub(q, BShl(m0, k))
                 half == BCmp(rest, BShl(<<1>>, k - 1))
                 up   == \/ half > 0
                         \/ half = 0 /\ (sticky \/ m0[1] % 2 = 1)
                 m1   == IF up THEN BAdd(m0, <<1>>) ELSE m0
             IN  IF BitLen(m1) > Precision
                 THEN [neg |-> neg, m |-> BShr(m1, 1), x |-> x + k + 1]
                 ELSE [neg |-> neg, m |-> m1, x |-> x + k]

\* (n / d) * 2^x rounded to the nearest Number
Round(n, d, x, neg) ==
    IF n = <<>> THEN Zero
    ELSE IF d = <<1>> THEN RoundBig(n, FALSE, x, neg)
    ELSE LET s  == Precision + 2 + BitLen(d) - BitLen(n)
             nn == IF s > 0 THEN BShl(n, s) ELSE n
             dd == IF s < 0 THEN BShl(d, -s) ELSE d
             q  == BDiv(nn, dd)
         IN  RoundBig(q, BMul(q, dd) # nn, x - s, neg)

RECURSIVE BPow10(_)
BPow10(k) == IF k = 0 THEN <<1>> ELSE BMulSmall(BPow10(k - 1), 10)

\* the Number nearest to m * 10^e: a decimal literal, parseFloat of a
\* decimal string
NumberOf(m, e) ==
    LET a == BOfInt(IF m < 0 THEN -m ELSE m)
    IN  IF e >= 0 THEN Round(BMul(a, BPow10(e)), <<1>>, 0, m < 0)
        ELSE Round(a, BPow10(-e), 0, m < 0)

\* a * b
NumMul(a, b) == RoundBig(BMul(a.m, b.m), FALSE, a.x + b.x, a.neg # b.neg)

\* a / b for b # 0
NumDiv(a, b) == Round(a.m, b.m, a.x - b.x, a.neg # b.neg)

\* a - b
NumSub(a, b) ==
    IF b.m = <<>> THEN a
    ELSE IF a.m = <<>> THEN [b EXCEPT !.neg = ~@]
    ELSE LET x0 == IF a.x <= b.x THEN a.x ELSE b.x
             am == BShl(a.m, a.x - x0)
             bm == BShl(b.m, b.x - x0)
             c  == BCmp(am, bm)
         IN  IF a.neg # b.neg THEN RoundBig(BAdd(am, bm), FALSE, x0, a.neg)
             ELSE IF c = 0 THEN Zero
             ELSE IF c > 0 THEN RoundBig(BSub(am, bm), FALSE, x0, a.neg)
             ELSE RoundBig(BSub(bm, am), FALSE, x0, ~a.neg)

NumAbs(a) == [a EXCEPT !.neg = FALSE]

\* a <= b
NumLe(a, b) ==
    LET mag == \* -1, 0, 1 as |a| < |b|, |a| = |b|, |a| > |b|
            IF a.m = <<>> \/ b.m = <<>>
            THEN (IF a.m = b.m THEN 0 ELSE IF a.m = <<>> THEN -1 ELSE 1)
            ELSE IF a.x # b.x THEN (IF a.x < b.x THEN -1 ELSE 1)
            ELSE BCmp(a.m, b.m)
    IN  IF a.m = <<>> /\ b.m = <<>> THEN TRUE
        ELSE IF a.m = <<>> THEN ~b.neg
        ELSE IF b.m = <<>> THEN a.neg
        ELSE IF a.neg # b.neg THEN a.neg
        ELSE IF a.neg THEN mag >= 0 ELSE mag <= 0

\* Number.MAX_SAFE_INTEGER, 2^53 - 1
MAX_SAFE_INTEGER ==
    [neg |-> FALSE, m |-> BSub(BShl(<<1>>, Precision), <<1>>), x |-> 0]

\* parseFloat of the decimal string of the integer m
parseFloat(m) == NumberOf(m, 0)

\* Math.pow(10, e), taken as the Number nearest to 10^e
MathPow10(e) == NumberOf(1, e)

\* ------------------------------------------------- the decision (pure code)

\* parseFloat(price) * Math.pow(10, expo), tabulated over the prices of the
\* model
PriceValues ==
    [p \in DecisionPrices |-> NumMul(parseFloat(p.m), MathPow10(p.e))]
PriceValue(price) == PriceValues[[m |-> price.m, e |-> price.e]]

\* #isPriceDeviationAcceptable with a zero on-chain value taken as no
\* deviation at all
isPriceDeviationAcceptable_ZeroIsNoDeviation(newPrice, currentPrice, tol) ==
    LET newPriceValue     == PriceValue(newPrice)
        currentPriceValue == PriceValue(currentPrice)
        value             == NumberOf(tol.value.m, tol.value.e)
        deviation         == NumAbs(NumSub(newPriceValue, currentPriceValue))
        deviationPercent  == IF currentPriceValue.m = <<>>
                             THEN Zero
                             ELSE NumDiv(deviation, currentPriceValue)
    IN  IF tol.type = "absolute"
        THEN NumLe(deviation, value)
        ELSE NumLe(deviationPercent, NumDiv(value, NumberOf(100, 0)))

\* #isPriceDeviationAcceptable with the absolute test written `<`
isPriceDeviationAcceptable_StrictAbsolute(newPrice, currentPrice, tol) ==
    LET newPriceValue     == PriceValue(newPrice)
        currentPriceValue == PriceValue(currentPrice)
        value             == NumberOf(tol.value.m, tol.value.e)
        deviation         == NumAbs(NumSub(newPriceValue, currentPriceValue))
        deviationPercent  == IF currentPriceValue.m = <<>>
                             THEN MAX_SAFE_INTEGER
                             ELSE NumDiv(deviation, currentPriceValue)
    IN  IF tol.type = "absolute"
        THEN NumLe(deviation, value) /\ ~NumLe(value, deviation)
        ELSE NumLe(deviationPercent, NumDiv(value, NumberOf(100, 0)))

\* #isPriceDeviationAcceptable for the two known tolerance types
isPriceDeviationAcceptable(newPrice, currentPrice, tol) ==
    LET newPriceValue     == PriceValue(newPrice)
        currentPriceValue == PriceValue(currentPrice)
        value             == NumberOf(tol.value.m, tol.value.e)
        deviation         == NumAbs(NumSub(newPriceValue, currentPriceValue))
        deviationPercent  == IF currentPriceValue.m = <<>>
                             THEN MAX_SAFE_INTEGER
                             ELSE NumDiv(deviation, currentPriceValue)
    IN  IF tol.type = "absolute"
        THEN NumLe(deviation, value)
        ELSE NumLe(deviationPercent, NumDiv(value, NumberOf(100, 0)))

\* canIgnorePriceUpdate with the staleness test written `<`: an equal
\* publish time counts as newer
canIgnorePriceUpdate_StrictStale(newPrice, currentPrice, tol) ==
    IF newPrice.pt < currentPrice.pt THEN "stale"
    ELSE IF tol.type \notin {"absolute", "percentage"} THEN "throw"
    ELSE IF isPriceDeviationAcceptable(newPrice, currentPrice, tol) THEN "within"
    ELSE "no"

\* canIgnorePriceUpdate where an unknown tolerance type is no reason to skip
\* instead of an error
canIgnorePriceUpdate_UnknownTypeSubmits(newPrice, currentPrice, tol) ==
    IF newPrice.pt <= currentPrice.pt THEN "stale"
    ELSE IF tol.type \notin {"absolute", "percentage"} THEN "no"
    ELSE IF isPriceDeviationAcceptable(newPrice, currentPrice, tol) THEN "within"
    ELSE "no"

\* #canIgnorePriceUpdate, with the throw of #isPriceDeviationAcceptable as a
\* result: "stale" and "within" are its two ways to return true, "no" is
\* false, "throw" the unknown tolerance type.
canIgnorePriceUpdate(newPrice, currentPrice, tol) ==
    IF newPrice.pt <= currentPrice.pt THEN "stale"
    ELSE IF tol.type \notin {"absolute", "percentage"} THEN "throw"
    ELSE IF isPriceDeviationAcceptable(newPrice, currentPrice, tol) THEN "within"
    ELSE "no"

\* #canIgnorePriceUpdate tabulated over the tolerances and quotes of the
\* model
Decisions ==
    [tol \in DecisionTolerances |->
        [q \in DecisionQuotes |->
            [p \in DecisionQuotes |-> canIgnorePriceUpdate(q, p, tol)]]]

\* --------------------------------------------------------------- helpers

\* the start() calls that went past the isRunning guard
Entered(c) == chain[c].pc \notin {"none", "returned"}

\* updatePrice() up to its first await: the senderAddress check, then
\* #fetchPriceFromHermes up to the fetch.
updatePrice(r, sender, feed) ==
    [r EXCEPT !.pc = IF sender /\ feed THEN "fetch" ELSE "thrown"]

\* Finish with the timer armed by a successful cycle only
Finish_StopsOnFailure(c, r, outcome) ==
    LET rearm == isRunning /\ outcome # "failed" IN
    /\ chain' = [chain EXCEPT ![c] =
                    [r EXCEPT !.pc = IF rearm THEN "timer" ELSE "dead",
                              !.result = IF @ = "pending" THEN "resolved" ELSE @]]
    /\ updateTimer' = IF rearm THEN c ELSE 0
    /\ lastOutcome' = outcome
    /\ UNCHANGED <<isRunning, senderAddress, cosmClient, priceFeedId,
                   tolerance, daemon, decision, response, aborted, nCalls, timerCycles, initCalls>>

\* Finish where a failed cycle stops the run
Finish_FailureStopsRun(c, r, outcome) ==
    LET running == isRunning /\ outcome # "failed" IN
    /\ isRunning' = running
    /\ chain' = [chain EXCEPT ![c] =
                    [r EXCEPT !.pc = IF running THEN "timer" ELSE "dead",
                              !.result = IF @ = "pending" THEN "resolved" ELSE @]]
    /\ updateTimer' = IF running THEN c ELSE 0
    /\ lastOutcome' = outcome
    /\ UNCHANGED <<senderAddress, cosmClient, priceFeedId,
                   tolerance, daemon, decision, response, aborted, nCalls, timerCycles, initCalls>>

\* Finish without the re-arming of the timer
Finish_NoRearm(c, r, outcome) ==
    /\ chain' = [chain EXCEPT ![c] =
                    [r EXCEPT !.pc = "dead",
                              !.result = IF @ = "pending" THEN "resolved" ELSE @]]
    /\ updateTimer' = 0
    /\ lastOutcome' = outcome
    /\ UNCHANGED <<isRunning, senderAddress, cosmClient, priceFeedId,
                   tolerance, daemon, decision, response, aborted, nCalls, timerCycles, initCalls>>

\* The closure of start() from the settling of `await this.updatePrice()` on:
\* the finally block, then the re-arming of the timer.  r is the closure's
\* record at that point; the first run of the closure also resolves start().
Finish(c, r, outcome) ==
    /\ chain' = [chain EXCEPT ![c] =
                    [r EXCEPT !.pc = IF isRunning THEN "timer" ELSE "dead",
                              !.result = IF @ = "pending" THEN "resolved" ELSE @]]
    /\ updateTimer' = IF isRunning THEN c ELSE 0
    /\ lastOutcome' = outcome
    /\ UNCHANGED <<isRunning, senderAddress, cosmClient, priceFeedId,
                   tolerance, daemon, decision, response, aborted, nCalls, timerCycles, initCalls>>

\* --------------------------------------------------------------- actions

\* start({signal}): the next call of it, up to its first await
start ==
    /\ nCalls < MaxStarts
    /\ nCalls' = nCalls + 1
    /\ LET c == nCalls + 1 IN
       IF isRunning
       THEN /\ chain' = [chain EXCEPT ![c] =
                           [NoChain EXCEPT !.pc = "returned", !.result = "resolved"]]
            /\ UNCHANGED <<isRunning, initCalls>>
       ELSE /\ isRunning' = TRUE
            /\ initCalls' = IF ~cosmClient THEN initCalls + 1 ELSE initCalls
            /\ LET r == [NoChain EXCEPT !.result = "pending", !.listening = TRUE]
               IN  chain' = [chain EXCEPT ![c] =
                               IF ~cosmClient
                               THEN [r EXCEPT !.pc = "init_wallet"]
                               ELSE updatePrice(r, senderAddress, priceFeedId)]
    /\ UNCHANGED <<updateTimer, senderAddress, cosmClient, priceFeedId,
                   tolerance, decision, response, aborted, timerCycles, lastOutcome>>

\* StartCall with #isRunning set after `await this.initialize()` instead of
\* before it
StartCall_FlagAfterInit ==
    /\ nCalls < MaxStarts
    /\ nCalls' = nCalls + 1
    /\ LET c == nCalls + 1 IN
       IF isRunning
       THEN /\ chain' = [chain EXCEPT ![c] =
                           [NoChain EXCEPT !.pc = "returned", !.result = "resolved"]]
            /\ UNCHANGED <<isRunning, initCalls>>
       ELSE /\ isRunning' = cosmClient
            /\ initCalls' = IF ~cosmClient THEN initCalls + 1 ELSE initCalls
            /\ LET r == [NoChain EXCEPT !.result = "pending", !.listening = TRUE]
               IN  chain' = [chain EXCEPT ![c] =
                               IF ~cosmClient
                               THEN [r EXCEPT !.pc = "init_wallet"]
                               ELSE updatePrice(r, senderAddress, priceFeedId)]
    /\ UNCHANGED <<updateTimer, senderAddress, cosmClient, priceFeedId,
                   tolerance, daemon, decision, response, aborted, timerCycles, lastOutcome>>

\* StartCall without the isRunning guard
StartCall_NoGuard ==
    /\ nCalls < MaxStarts
    /\ nCalls' = nCalls + 1
    /\ LET c == nCalls + 1 IN
       /\ isRunning' = TRUE
       /\ initCalls' = IF ~cosmClient THEN initCalls + 1 ELSE initCalls
       /\ LET r == [NoChain EXCEPT !.result = "pending", !.listening = TRUE]
          IN  chain' = [chain EXCEPT ![c] =
                          IF ~cosmClient
                          THEN [r EXCEPT !.pc = "init_wallet"]
                          ELSE updatePrice(r, senderAddress, priceFeedId)]
    /\ UNCHANGED <<updateTimer, senderAddress, cosmClient, priceFeedId,
                   tolerance, daemon, decision, response, aborted, timerCycles, lastOutcome>>

\* StartCall that calls initialize() whether or not #cosmClient is set
StartCall_AlwaysInitializes ==
    /\ nCalls < MaxStarts
    /\ nCalls' = nCalls + 1
    /\ LET c == nCalls + 1 IN
       IF isRunning
       THEN /\ chain' = [chain EXCEPT ![c] =
                           [NoChain EXCEPT !.pc = "returned", !.result = "resolved"]]
            /\ UNCHANGED <<isRunning, initCalls>>
       ELSE /\ isRunning' = TRUE
            /\ initCalls' = initCalls + 1
            /\ LET r == [NoChain EXCEPT !.result = "pending", !.listening = TRUE]
               IN  chain' = [chain EXCEPT ![c] = [r EXCEPT !.pc = "init_wallet"]]
    /\ UNCHANGED <<updateTimer, senderAddress, cosmClient, priceFeedId,
                   tolerance, daemon, decision, response, aborted, timerCycles, lastOutcome>>

\* the next start({signal}) call, by a caller other than daemonCommand
StartCall == start /\ UNCHANGED daemon


\* the signal of the c-th start() call fires, before the call is made or
\* after.  The abort event is dispatched once, to the listeners registered
\* at that moment: a listener added to a signal that has fired never runs.
onAbort(c) ==
    /\ c <= nCalls + 1
    /\ ~aborted[c]
    /\ aborted' = [aborted EXCEPT ![c] = TRUE]
    /\ IF chain[c].listening
       THEN /\ isRunning' = FALSE
            /\ updateTimer' = 0
            /\ chain' = [d \in Calls |->
                  IF d = c THEN [chain[d] EXCEPT
                                   !.listening = FALSE,
                                   !.pc = IF d = updateTimer /\ @ = "timer"
                                          THEN "cancelled" ELSE @]
                  ELSE IF d = updateTimer /\ chain[d].pc = "timer"
                       THEN [chain[d] EXCEPT !.pc = "cancelled"]
                       ELSE chain[d]]
       ELSE UNCHANGED <<isRunning, updateTimer, chain>>
    /\ UNCHANGED <<senderAddress, cosmClient, priceFeedId, tolerance, decision, response,
                   nCalls, timerCycles, initCalls, lastOutcome>>

\* Abort where the listener also drops the cycle in flight of its call
Abort_InterruptsCycle(c) ==
    /\ c <= nCalls + 1
    /\ ~aborted[c]
    /\ aborted' = [aborted EXCEPT ![c] = TRUE]
    /\ IF chain[c].listening
       THEN /\ isRunning' = FALSE
            /\ updateTimer' = 0
            /\ chain' = [d \in Calls |->
                  IF d = c THEN [chain[d] EXCEPT
                                   !.listening = FALSE,
                                   !.result = IF @ = "pending" /\ chain[d].pc \in CyclePcs
                                              THEN "resolved" ELSE @,
                                   !.pc = IF d = updateTimer /\ @ = "timer"
                                          THEN "cancelled"
                                          ELSE IF @ \in CyclePcs THEN "dead" ELSE @]
                  ELSE IF d = updateTimer /\ chain[d].pc = "timer"
                       THEN [chain[d] EXCEPT !.pc = "cancelled"]
                       ELSE chain[d]]
       ELSE UNCHANGED <<isRunning, updateTimer, chain>>
    /\ UNCHANGED <<senderAddress, cosmClient, priceFeedId, tolerance, daemon, decision, response,
                   nCalls, timerCycles, initCalls, lastOutcome>>

\* the signal of the c-th start() call fires and daemonCommand does not
\* listen to it
Abort(c) == onAbort(c) /\ UNCHANGED daemon


\* initialize(): createWallet and getAccounts resolve
InitWalletDone(c) ==
    /\ chain[c].pc = "init_wallet"
    /\ senderAddress' = TRUE
    /\ chain' = [chain EXCEPT ![c].pc = "init_connect"]
    /\ UNCHANGED <<isRunning, updateTimer, cosmClient, priceFeedId, tolerance, daemon, decision, response,
                   aborted, nCalls, timerCycles, initCalls, lastOutcome>>

\* initialize(): connectWithSigner resolves
InitConnectDone(c) ==
    /\ chain[c].pc = "init_connect"
    /\ cosmClient' = TRUE
    /\ chain' = [chain EXCEPT ![c].pc = "init_feed"]
    /\ UNCHANGED <<isRunning, updateTimer, senderAddress, priceFeedId,
                   tolerance, daemon, decision, response, aborted, nCalls, timerCycles, initCalls, lastOutcome>>

\* InitFeedDone where start() calls its closure without awaiting it
InitFeedDone_NotAwaited(c) ==
    /\ chain[c].pc = "init_feed"
    /\ priceFeedId' = TRUE
    /\ chain' = [chain EXCEPT ![c] =
                    IF isRunning
                    THEN [updatePrice(@, senderAddress, TRUE) EXCEPT !.result = "resolved"]
                    ELSE [@ EXCEPT !.pc = "dead", !.result = "resolved"]]
    /\ UNCHANGED <<isRunning, updateTimer, senderAddress, cosmClient,
                   tolerance, daemon, decision, response, aborted, nCalls, timerCycles, initCalls, lastOutcome>>

\* initialize(): #fetchPriceFeedId resolves; start() goes on to the first
\* call of its closure
InitFeedDone(c) ==
    /\ chain[c].pc = "init_feed"
    /\ priceFeedId' = TRUE
    /\ chain' = [chain EXCEPT ![c] =
                    IF isRunning
                    THEN updatePrice(@, senderAddress, TRUE)
                    ELSE [@ EXCEPT !.pc = "dead", !.result = "resolved"]]
    /\ UNCHANGED <<isRunning, updateTimer, senderAddress, cosmClient,
                   tolerance, daemon, decision, response, aborted, nCalls, timerCycles, initCalls, lastOutcome>>

\* InitFail without `this.#isRunning = false` in the catch block
InitFail_KeepsRunning(c) ==
    /\ chain[c].pc \in InitPcs
    /\ chain' = [chain EXCEPT ![c].pc = "rejected", ![c].result = "rejected"]
    /\ UNCHANGED <<isRunning, updateTimer, senderAddress, cosmClient, priceFeedId,
                   tolerance, daemon, decision, response, aborted, nCalls, timerCycles, initCalls, lastOutcome>>

\* initialize() throws at any of its awaits: the catch block of start()
InitFail(c) ==
    /\ chain[c].pc \in InitPcs
    /\ isRunning' = FALSE
    /\ chain' = [chain EXCEPT ![c].pc = "rejected", ![c].result = "rejected"]
    /\ UNCHANGED <<updateTimer, senderAddress, cosmClient, priceFeedId,
                   tolerance, daemon, decision, response, aborted, nCalls, timerCycles, initCalls, lastOutcome>>

\* the timer of chain c fires: the closure runs again
TimerFire(c) ==
    /\ chain[c].pc = "timer"
    /\ isRunning => timerCycles < MaxTimerCycles
    /\ IF isRunning
       THEN /\ chain' = [chain EXCEPT ![c] =
                           updatePrice(@, senderAddress, priceFeedId)]
            /\ timerCycles' = timerCycles + 1
       ELSE /\ chain' = [chain EXCEPT ![c].pc = "dead"]
            /\ UNCHANGED timerCycles
    /\ UNCHANGED <<isRunning, updateTimer, senderAddress, cosmClient,
                   priceFeedId, tolerance, daemon, decision, response, aborted, nCalls, initCalls, lastOutcome>>

\* updatePrice() rejected before its first await
Thrown(c) ==
    /\ chain[c].pc = "thrown"
    /\ Finish(c, chain[c], "failed")

\* the Hermes fetch resolves with a quote; queryCurrentPrice is called.
\* priceData and vaa are locals of updatePrice() that only the decision
\* reads: the quote's value is drawn in QueryDone, where it is read.
FetchDone(c) ==
    /\ chain[c].pc = "fetch"
    /\ IF cosmClient
       THEN /\ chain' = [chain EXCEPT ![c].pc = "query"]
            /\ UNCHANGED <<isRunning, updateTimer, senderAddress, cosmClient,
                           priceFeedId, tolerance, daemon, decision, response, aborted, nCalls, timerCycles,
                           initCalls, lastOutcome>>
       ELSE Finish(c, chain[c], "failed")

\* QueryOutcome where a quote within tolerance goes on to the config query
QueryOutcome_WithinSubmits(c, d) ==
    CASE d = "stale"  -> Finish(c, chain[c], "skipped_stale")
      [] d = "throw"  -> Finish(c, chain[c], "failed")
      [] OTHER ->
           /\ chain' = [chain EXCEPT ![c].pc = "config"]
           /\ UNCHANGED <<isRunning, updateTimer, senderAddress, cosmClient,
                          priceFeedId, tolerance, daemon, decision, response, aborted, nCalls, timerCycles,
                          initCalls, lastOutcome>>

\* updatePrice() from the decision on: the cycle ends here when the quote
\* can be ignored (or the tolerance type is unknown), else the config query
\* is made
QueryOutcome(c, d) ==
    CASE d = "stale"  -> Finish(c, chain[c], "skipped_stale")
      [] d = "within" -> Finish(c, chain[c], "skipped_tolerance")
      [] d = "throw"  -> Finish(c, chain[c], "failed")
      [] OTHER ->
           /\ chain' = [chain EXCEPT ![c].pc = "config"]
           /\ UNCHANGED <<isRunning, updateTimer, senderAddress, cosmClient,
                          priceFeedId, tolerance, daemon, decision, response, aborted, nCalls, timerCycles,
                          initCalls, lastOutcome>>

\* queryCurrentPrice resolves with p while the fetched quote is q
QueryDone(c, q, p) ==
    /\ chain[c].pc = "query"
    /\ QueryOutcome(c, Decisions[tolerance][q][p])

\* queryContractSmart(get_config) resolves; execute is called
ConfigDone(c) ==
    /\ chain[c].pc = "config"
    /\ chain' = [chain EXCEPT ![c].pc = "submit"]
    /\ UNCHANGED <<isRunning, updateTimer, senderAddress, cosmClient,
                   priceFeedId, tolerance, daemon, decision, response, aborted, nCalls, timerCycles,
                   initCalls, lastOutcome>>

\* execute resolves
SubmitDone(c) ==
    /\ chain[c].pc = "submit"
    /\ Finish(c, chain[c], "submitted")

\* CycleFail where the rejection is swallowed and the cycle goes on to its
\* next step
CycleFail_GoesOn(c) ==
    /\ chain[c].pc \in {"fetch", "query", "config", "submit"}
    /\ IF chain[c].pc = "submit"
       THEN Finish(c, chain[c], "failed")
       ELSE /\ chain' = [chain EXCEPT ![c].pc =
                           IF @ = "fetch" THEN "query"
                           ELSE IF @ = "query" THEN "config" ELSE "submit"]
            /\ UNCHANGED <<isRunning, updateTimer, senderAddress, cosmClient,
                           priceFeedId, tolerance, daemon, decision, response, aborted, nCalls, timerCycles,
                           initCalls, lastOutcome>>

\* the collaborator call the cycle awaits rejects (or, for the fetch, answers
\* with a failure status or without data)
CycleFail(c) ==
    /\ chain[c].pc \in {"fetch", "query", "config", "submit"}
    /\ Finish(c, chain[c], "failed")

Next ==
    \/ StartCall
    \/ \E c \in Calls : Abort(c)
    \/ \E c \in Calls : InitWalletDone(c)
    \/ \E c \in Calls : InitConnectDone(c)
    \/ \E c \in Calls : InitFeedDone(c)
    \/ \E c \in Calls : InitFail(c)
    \/ \E c \in Calls : TimerFire(c)
    \/ \E c \in Calls : Thrown(c)
    \/ \E c \in Calls : FetchDone(c)
    \/ \E c \in Calls, q \in Quotes, p \in Quotes : QueryDone(c, q, p)
    \/ \E c \in Calls : ConfigDone(c)
    \/ \E c \in Calls : SubmitDone(c)
    \/ \E c \in Calls : CycleFail(c)

Spec == Init /\ [][Next]_vars

\* ------------------------------------------------------- unbounded runs
\* The loop over runs of any length: the timer fires however many cycles
\* have run, timerCycles counting them up to MaxTimerCycles only.
TimerElapses(c) ==
    /\ chain[c].pc = "timer"
    /\ IF isRunning
       THEN /\ chain' = [chain EXCEPT ![c] =
                           updatePrice(@, senderAddress, priceFeedId)]
            /\ timerCycles' = IF timerCycles < MaxTimerCycles
                               THEN timerCycles + 1 ELSE timerCycles
       ELSE /\ chain' = [chain EXCEPT ![c].pc = "dead"]
            /\ UNCHANGED timerCycles
    /\ UNCHANGED <<isRunning, updateTimer, senderAddress, cosmClient,
                   priceFeedId, tolerance, daemon, decision, response, aborted, nCalls, initCalls, lastOutcome>>

\* an awaited call of initialize() settles
InitStep(c) ==
    InitWalletDone(c) \/ InitConnectDone(c) \/ InitFeedDone(c) \/ InitFail(c)

\* updatePrice() goes on: the collaborator call it awaits settles
CycleStep(c) ==
    \/ Thrown(c)
    \/ FetchDone(c)
    \/ \E q \in Quotes, p \in Quotes : QueryDone(c, q, p)
    \/ ConfigDone(c)
    \/ SubmitDone(c)
    \/ CycleFail(c)

LoopNext ==
    \/ StartCall
    \/ \E c \in Calls : Abort(c)
    \/ \E c \in Calls : InitStep(c)
    \/ \E c \in Calls : TimerElapses(c)
    \/ \E c \in Calls : CycleStep(c)

\* Every awaited collaborator call settles and every armed timer that is
\* not cleared fires: the event loop runs a callback that is due.  Nothing
\* obliges a caller to call start() or a signal to fire.
LoopSpec ==
    /\ Init
    /\ [][LoopNext]_vars
    /\ \A c \in Calls : WF_vars(InitStep(c))
    /\ \A c \in Calls : WF_vars(CycleStep(c))
    /\ \A c \in Calls : WF_vars(TimerElapses(c))

\* ------------------------------------------- direct calls and the daemon
\* A client that is constructed and not started: updatePrice() called
\* directly, which applies the decision to the quote and the on-chain price
\* its collaborators return, and requests to the daemon's health server.

\* #config: a distinct value for every field getStatus() could show
Config ==
    [contractAddress |-> "contractAddress", walletSecret |-> "walletSecret",
     gasPrice |-> "gasPrice", rpcEndpoint |-> "rpcEndpoint",
     hermesEndpoint |-> "hermesEndpoint", denom |-> "denom"]

\* getStatus() returning the gas price of the configuration as well
getStatus_WithGasPrice ==
    [isRunning       |-> isRunning,
     address         |-> IF senderAddress THEN "address" ELSE "undefined",
     priceFeedId     |-> IF priceFeedId THEN "priceFeedId" ELSE "undefined",
     contractAddress |-> Config.contractAddress,
     gasPrice        |-> Config.gasPrice]

\* getStatus(): the object it returns
getStatus ==
    [isRunning       |-> isRunning,
     address         |-> IF senderAddress THEN "address" ELSE "undefined",
     priceFeedId     |-> IF priceFeedId THEN "priceFeedId" ELSE "undefined",
     contractAddress |-> Config.contractAddress]

\* JSON.stringify of a status object: properties that are undefined are
\* left out
JSONstringify(status) ==
    [f \in {g \in DOMAIN status : g = "isRunning" \/ status[g] # "undefined"}
        |-> status[f]]

Methods == {"GET", "POST", "HEAD"}
Urls == {"/health", "/metrics", "/", "/health/", "/health?verbose=1"}

\* prometheusExporter.getMetricsRequestHandler(req, res): the exporter writes
\* the answer, the metrics in the Prometheus text format
getMetricsRequestHandler(method, url) ==
    [made |-> TRUE, method |-> method, url |-> url, code |-> 200,
     contentType |-> "text/plain", body |-> "metrics"]

\* the request listener answering /health whatever the method
requestListener_AnyMethod(method, url) ==
    IF url = "/health"
    THEN [made |-> TRUE, method |-> method, url |-> url, code |-> 200,
          contentType |-> "application/json", body |-> JSONstringify(getStatus)]
    ELSE IF method = "GET" /\ url = "/metrics"
    THEN getMetricsRequestHandler(method, url)
    ELSE [made |-> TRUE, method |-> method, url |-> url, code |-> 404,
          contentType |-> "text/plain", body |-> "Not Found"]

\* the request listener of the daemon's http server
requestListener(method, url) ==
    IF method = "GET" /\ url = "/health"
    THEN [made |-> TRUE, method |-> method, url |-> url, code |-> 200,
          contentType |-> "application/json", body |-> JSONstringify(getStatus)]
    ELSE IF method = "GET" /\ url = "/metrics"
    THEN getMetricsRequestHandler(method, url)
    ELSE [made |-> TRUE, method |-> method, url |-> url, code |-> 404,
          contentType |-> "text/plain", body |-> "Not Found"]

\* updatePrice() on an initialized client, up to the decision
Decide(q, p) ==
    /\ senderAddress /\ cosmClient /\ priceFeedId
    /\ decision' = [made |-> TRUE, newPrice |-> q, currentPrice |-> p,
                    result |-> Decisions[tolerance][q][p]]
    /\ UNCHANGED <<isRunning, updateTimer, senderAddress, cosmClient,
                   priceFeedId, tolerance, daemon, aborted, nCalls, timerCycles,
                   initCalls, lastOutcome, chain, response>>

\* a request arrives at the daemon's server
HealthRequest(method, url) ==
    /\ response' = requestListener(method, url)
    /\ UNCHANGED <<isRunning, updateTimer, senderAddress, cosmClient,
                   priceFeedId, tolerance, daemon, aborted, nCalls, timerCycles,
                   initCalls, lastOutcome, chain, decision>>

DecisionInit == Constructed(DecisionTolerances)
DecisionNext == \E q \in DecisionQuotes, p \in DecisionQuotes : Decide(q, p)
DecisionSpec == DecisionInit /\ [][DecisionNext]_vars

\* The daemon: the client it created is started and initializes while
\* requests arrive.  The update cycles are left out: they write none of the
\* fields getStatus() reads.
DaemonInit == Constructed({DEFAULT_PRICE_DEVIATION_TOLERANCE})
DaemonNext ==
    \/ \E method \in Methods, url \in Urls : HealthRequest(method, url)
    \/ StartCall
    \/ \E c \in Calls : Abort(c)
    \/ \E c \in Calls : InitWalletDone(c)
    \/ \E c \in Calls : InitConnectDone(c)
    \/ \E c \in Calls : InitFeedDone(c)
    \/ \E c \in Calls : InitFail(c)
DaemonSpec == DaemonInit /\ [][DaemonNext]_vars

\* ---------------------------------------------------------- daemonCommand
\* daemonCommand(config) from its call to its return.  config.signal is the
\* signal it hands to client.start(), the first start() call of the client:
\* aborted[1].  The server binds in server.listen() and calls the listen
\* callback on the next tick, before any other event is handled, so that
\* listen() and its callback are one step; a port that cannot be bound is
\* reported the same way through the "error" event.

\* daemonCommand(config) is called: createHermesClient is awaited
CommandCall ==
    /\ daemon.pc = "none"
    /\ daemon' = [daemon EXCEPT !.pc = "create"]
    /\ UNCHANGED <<isRunning, updateTimer, senderAddress, cosmClient, priceFeedId,
                   tolerance, aborted, nCalls, timerCycles, initCalls, lastOutcome,
                   chain, decision, response>>

\* createHermesClient rejects
CreateFail ==
    /\ daemon.pc = "create"
    /\ daemon' = [daemon EXCEPT !.pc = "rejected"]
    /\ UNCHANGED <<isRunning, updateTimer, senderAddress, cosmClient, priceFeedId,
                   tolerance, aborted, nCalls, timerCycles, initCalls, lastOutcome,
                   chain, decision, response>>

\* createHermesClient resolves: the server is created, `abort` is added to
\* config.signal (it will never run if the signal has fired already) and
\* client.start({signal: config.signal}) is called
CommandStart ==
    /\ daemon.pc = "create"
    /\ nCalls = 0
    /\ daemon' = [daemon EXCEPT !.pc = "start", !.listener = ~aborted[1]]
    /\ start

\* abort(): server.close(callback).  The handle, if any, is closed at once
\* and the "close" event is emitted later, whether or not the server was
\* listening.
abort(d) == [d EXCEPT !.listener = FALSE, !.listening = FALSE, !.closing = TRUE]

\* config.signal fires: `abort`, added first, and the listener of start()
\* run one after the other
SignalFires ==
    /\ daemon' = IF daemon.listener THEN abort(daemon) ELSE daemon
    /\ onAbort(1)

\* client.start() rejected: daemonCommand throws
StartRejected ==
    /\ daemon.pc = "start"
    /\ chain[1].result = "rejected"
    /\ daemon' = [daemon EXCEPT !.pc = "rejected"]
    /\ UNCHANGED <<isRunning, updateTimer, senderAddress, cosmClient, priceFeedId,
                   tolerance, aborted, nCalls, timerCycles, initCalls, lastOutcome,
                   chain, decision, response>>

\* StartReturned that listens whether or not the signal has fired
StartReturned_ListensAnyway ==
    /\ daemon.pc = "start"
    /\ chain[1].result = "resolved"
    /\ daemon' = [daemon EXCEPT !.pc = "serving", !.listening = TRUE]
    /\ UNCHANGED <<isRunning, updateTimer, senderAddress, cosmClient, priceFeedId,
                   tolerance, aborted, nCalls, timerCycles, initCalls, lastOutcome,
                   chain, decision, response>>

\* client.start() returned.  With the signal fired nothing is listened to
\* and, the server not listening, daemonCommand returns; otherwise
\* server.listen() binds the port and once(server, "close") is awaited.
\* (`config.signal.aborted && server.listening` cannot hold here: the signal
\* had not fired when listen() was called one step before.)
StartReturned ==
    /\ daemon.pc = "start"
    /\ chain[1].result = "resolved"
    /\ daemon' = IF aborted[1]
                 THEN [daemon EXCEPT !.pc = "returned"]
                 ELSE [daemon EXCEPT !.pc = "serving", !.listening = TRUE]
    /\ UNCHANGED <<isRunning, updateTimer, senderAddress, cosmClient, priceFeedId,
                   tolerance, aborted, nCalls, timerCycles, initCalls, lastOutcome,
                   chain, decision, response>>

\* client.start() returned, the signal has not fired and server.listen()
\* cannot bind the port: the "error" event rejects
ListenFails ==
    /\ daemon.pc = "start"
    /\ chain[1].result = "resolved"
    /\ ~aborted[1]
    /\ daemon' = [daemon EXCEPT !.pc = "rejected"]
    /\ UNCHANGED <<isRunning, updateTimer, senderAddress, cosmClient, priceFeedId,
                   tolerance, aborted, nCalls, timerCycles, initCalls, lastOutcome,
                   chain, decision, response>>

\* the server emits "close": once(server, "close") resolves and
\* daemonCommand returns
CloseEmitted ==
    /\ daemon.closing
    /\ daemon' = [daemon EXCEPT !.closing = FALSE,
                                !.pc = IF @ = "serving" THEN "returned" ELSE @]
    /\ UNCHANGED <<isRunning, updateTimer, senderAddress, cosmClient, priceFeedId,
                   tolerance, aborted, nCalls, timerCycles, initCalls, lastOutcome,
                   chain, decision, response>>

\* The steps of updatePrice() in the run daemonCommand started.  Its client
\* is started once, so that updatePrice() is only called after initialize()
\* has succeeded and never throws before its first await.
AwaitedStep(c) ==
    \/ FetchDone(c)
    \/ \E q \in Quotes, p \in Quotes : QueryDone(c, q, p)
    \/ ConfigDone(c)
    \/ SubmitDone(c)
    \/ CycleFail(c)

CommandNext ==
    \/ CommandCall
    \/ CreateFail
    \/ CommandStart
    \/ SignalFires
    \/ StartRejected
    \/ StartReturned
    \/ ListenFails
    \/ CloseEmitted
    \/ \E c \in Calls : InitStep(c)
    \/ \E c \in Calls : AwaitedStep(c)
    \/ \E c \in Calls : TimerElapses(c)

\* Every awaited call settles (createHermesClient, those of the client, the
\* listen callback) and the server emits the "close" event that is due.
\* Nothing obliges the signal to fire or daemonCommand to be called.
CommandSpec ==
    /\ Init
    /\ [][CommandNext]_vars
    /\ WF_vars(CreateFail \/ CommandStart)
    /\ WF_vars(StartRejected \/ StartReturned \/ ListenFails)
    /\ WF_vars(CloseEmitted)
    /\ \A c \in Calls : WF_vars(InitStep(c))
    /\ \A c \in Calls : WF_vars(AwaitedStep(c))

\* ================================================================ claims

\* a cycle of chain c is executing: updatePrice() has been called by the
\* closure and the closure has not gone past its await
InCycle(c) == chain[c].pc \in CyclePcs
\* a cycle of chain c awaits a collaborator
Awaiting(c) == chain[c].pc \in {"fetch", "query", "config", "submit"}
TimerPending(c) == chain[c].pc = "timer"
Initializing(c) == chain[c].pc \in InitPcs
\* the cycle of chain c ends in this step
CycleEnds(c) == InCycle(c) /\ ~InCycle(c)'
\* a cycle of chain c begins in this step
CycleBegins(c) == ~InCycle(c) /\ InCycle(c)'
\* the closure of chain c arms a timer in this step
TimerArmed(c) == ~TimerPending(c) /\ TimerPending(c)'

\* ----------------------------------------------------------------- C1
\* C1: at most one scheduler-driven cycle is executing at any instant, over
\* every interleaving of start calls, cancellations, timer firings and
\* collaborator completions.  (Stated of the cycles that await a
\* collaborator.)
C1_AtMostOneCycle == Cardinality({c \in Calls : Awaiting(c)}) <= 1

\* ----------------------------------------------------------------- C2
\* no signal has fired, no initialization has failed, no timer has fired:
\* the start() calls made so far are concurrent calls on the fresh client
Quiet ==
    /\ \A c \in Calls : ~aborted[c]
    /\ \A c \in Calls : chain[c].result # "rejected"
    /\ timerCycles = 0

\* C2: of N concurrent start() calls only the first goes past the guard, so
\* initialize() is called at most once and at most one cycle (the initial
\* one) is executing or has run; every other call has returned at once,
\* without a listener and without a collaborator call.
C2_ConcurrentStartsOnce ==
    Quiet =>
        /\ \A c \in Calls : Entered(c) => c = 1
        /\ \A c \in 2..nCalls :
              chain[c] = [NoChain EXCEPT !.pc = "returned", !.result = "resolved"]
        /\ initCalls <= 1
        /\ nCalls >= 1 => isRunning

\* every call was made: the first initialized the client and ran the initial
\* cycle to a submit, the others returned
C2_Witness ==
    /\ Quiet
    /\ nCalls = MaxStarts
    /\ initCalls = 1
    /\ chain[1].pc = "timer" /\ chain[1].result = "resolved"
    /\ lastOutcome = "submitted"
    /\ \A c \in 2..nCalls : chain[c].pc = "returned"

\* ----------------------------------------------------------------- C3
\* C3: a start() call made while #isRunning is true resolves and changes
\* nothing: no initialization, no cycle, no timer, no listener, and
\* #isRunning stays true.
C3_StartWhileRunningIsNoOp ==
    [][(StartCall /\ isRunning) =>
          /\ UNCHANGED <<isRunning, updateTimer, senderAddress, cosmClient,
                         priceFeedId, tolerance, daemon, decision, response, aborted, timerCycles,
                         initCalls, lastOutcome>>
          /\ isRunning'
          /\ \A c \in Calls :
                IF c = nCalls + 1
                THEN /\ chain'[c].result = "resolved"
                     /\ ~chain'[c].listening
                     /\ ~Initializing(c)' /\ ~InCycle(c)' /\ ~TimerPending(c)'
                ELSE chain'[c] = chain[c]]_vars

C3_Witness ==
    /\ isRunning
    /\ nCalls >= 2
    /\ chain[nCalls].pc = "returned"

\* ----------------------------------------------------------------- C4
\* C4: once the signal given to a start() call has fired during its run (its
\* abort listener has run), the closure of that call begins no further
\* cycle and arms no timer.
C4_NoCycleAfterCancel ==
    [][\A c \in Calls :
          (Entered(c) /\ aborted[c] /\ ~chain[c].listening)
              => ~CycleBegins(c) /\ ~TimerArmed(c)]_vars

\* ----------------------------------------------------------------- C5
\* the start() call whose run is the current one: the last that went past
\* the guard
RunningStart(c) == Entered(c) /\ \A d \in Calls : Entered(d) => d <= c

\* C5: there is no state in which the signal passed to the running start()
\* has fired and #isRunning is still true.
C5_StoppedOnceFired ==
    \A c \in Calls : (RunningStart(c) /\ aborted[c]) => ~isRunning

\* ----------------------------------------------------------------- C6
\* C6 (as claimed): #isRunning is true if and only if a timer is pending or
\* a cycle is executing.
C6_RunningIffTimerOrCycle ==
    isRunning <=> \E c \in Calls : TimerPending(c) \/ InCycle(c)

\* C6 (amended): if #isRunning is true then a start() call is initializing,
\* a cycle is executing or a timer is pending.
C6_RunningImpliesActive ==
    isRunning => \E c \in Calls : Initializing(c) \/ InCycle(c) \/ TimerPending(c)

\* running during initialization, with no timer and no cycle
C6_Witness ==
    /\ isRunning
    /\ \E c \in Calls : Initializing(c)
    /\ \A c \in Calls : ~TimerPending(c) /\ ~InCycle(c)

\* ----------------------------------------------------------------- C7
\* C7: when initialize() fails inside start(), start() rejects, #isRunning
\* is false in the state the rejection leaves, and that start() call begins
\* no cycle and arms no timer, then or later.
C7_InitFailureStops ==
    [][\A c \in Calls :
          /\ InitFail(c) =>
                /\ ~isRunning'
                /\ chain'[c].result = "rejected"
                /\ updateTimer' = updateTimer
                /\ \A d \in Calls : ~CycleBegins(d) /\ ~TimerArmed(d)
          /\ chain[c].result = "rejected" =>
                /\ chain'[c].result = "rejected"
                /\ ~InCycle(c)' /\ ~TimerPending(c)']_vars

C7_Witness ==
    \E c \in Calls :
        /\ chain[c].result = "rejected"
        /\ ~isRunning
        /\ \A d \in Calls : ~TimerPending(d) /\ ~InCycle(d)

\* ----------------------------------------------------------------- C8
\* C8: a cycle that fails (the initial one included) leaves #isRunning as it
\* is, resolves start() if it was the initial cycle, and, with #isRunning
\* true, arms the timer for the next cycle.
C8_FailureKeepsLoop ==
    [][\A c \in Calls :
          (CycleEnds(c) /\ lastOutcome' = "failed") =>
              /\ isRunning' = isRunning
              /\ chain'[c].result = "resolved"
              /\ isRunning => (TimerPending(c)' /\ updateTimer' = c)]_vars

\* the initial cycle failed: start() resolved, still running, timer armed
C8_Witness ==
    /\ lastOutcome = "failed"
    /\ isRunning
    /\ timerCycles = 0
    /\ \E c \in Calls :
          /\ TimerPending(c) /\ updateTimer = c
          /\ chain[c].result = "resolved"
          /\ \A d \in Calls : d # c => ~Entered(d)

\* ----------------------------------------------------------------- C9
\* C9: no rescheduling timer is pending while a cycle is executing (the
\* timer is armed at the completion of a cycle only).
C9_NoTimerDuringCycle ==
    ~(\E c \in Calls : Awaiting(c) /\ \E d \in Calls : TimerPending(d))

\* ---------------------------------------------------------------- C10
\* C10: a quote whose publish_time is less than or equal to the on-chain
\* publish_time read in the same cycle ends the cycle as skipped (stale)
\* under every tolerance, without the config query or the submit; the cycle
\* goes on towards the submit only with a strictly newer quote.  (QueryDone
\* always moves the chain off "query", so only such steps are looked at.)
C10_StaleNeverSubmitted ==
    [][\A c \in Calls :
          /\ (chain[c].pc = "query" /\ chain'[c].pc # "query") =>
                \/ /\ lastOutcome' = "skipped_stale"
                   /\ CycleEnds(c)
                   /\ chain'[c].pc # "config"
                \/ \A q \in Quotes, p \in Quotes :
                      q.pt <= p.pt => ~QueryDone(c, q, p)
          /\ chain'[c].pc = "submit" => chain[c].pc \in {"config", "submit"}
          /\ chain'[c].pc = "config" => chain[c].pc \in {"query", "config"}]_vars

\* a stale quote was skipped under a tolerance type that would otherwise
\* make the decision throw
C10_Witness ==
    /\ lastOutcome = "skipped_stale"
    /\ tolerance.type = "other"

\* ------------------------------------------- exact values for C11 to C14
\* The value mantissa * 10^exponent of a decimal as a fraction n / d of
\* integers, d positive: the quantities the tolerance rules are stated in.
RatOf(dec) ==
    IF dec.e >= 0 THEN [n |-> dec.m * 10 ^ dec.e, d |-> 1]
    ELSE [n |-> dec.m, d |-> 10 ^ (0 - dec.e)]
RatAbsDiff(a, b) ==
    LET n == a.n * b.d - b.n * a.d
    IN  [n |-> IF n < 0 THEN 0 - n ELSE n, d |-> a.d * b.d]
RatLe(a, b) == a.n * b.d <= b.n * a.d
\* a / b for b > 0
RatDiv(a, b) == [n |-> a.n * b.d, d |-> a.d * b.n]

\* the decision was made on a strictly newer quote under tolerance type ty
DecidedNewer(ty) ==
    /\ decision.made
    /\ tolerance.type = ty
    /\ decision.newPrice.pt > decision.currentPrice.pt

\* ---------------------------------------------------------------- C11
\* C11: under absolute tolerance t and a strictly newer quote, the decision
\* is a skip if and only if |newValue - currentValue| <= t, the values
\* being mantissa * 10^exponent; |newValue - currentValue| = t is a skip.
C11_AbsoluteSkipIffWithin ==
    DecidedNewer("absolute") =>
        (decision.result = "within" <=>
            RatLe(RatAbsDiff(RatOf(decision.newPrice), RatOf(decision.currentPrice)),
                  RatOf(tolerance.value)))

\* ---------------------------------------------------------------- C12
\* C12: under percentage tolerance p and a strictly newer quote with a
\* non-zero on-chain value, the decision is a skip if and only if
\* |newValue - currentValue| / currentValue <= p / 100; equality is a skip.
C12_PercentageSkipIffWithin ==
    (DecidedNewer("percentage") /\ decision.currentPrice.m # 0) =>
        (decision.result = "within" <=>
            RatLe(RatDiv(RatAbsDiff(RatOf(decision.newPrice),
                                    RatOf(decision.currentPrice)),
                         RatOf(decision.currentPrice)),
                  RatDiv(RatOf(tolerance.value), [n |-> 100, d |-> 1])))

\* ---------------------------------------------------------------- C13
\* C13: under percentage tolerance, a strictly newer quote is never skipped
\* when the on-chain value is 0: the decision is to submit for every
\* tolerance value and every new price, a new price of 0 included.
C13_ZeroCurrentNeverSkipped ==
    (DecidedNewer("percentage") /\ decision.currentPrice.m = 0) =>
        decision.result = "no"

\* the widest tolerance, 100 %, and a new price that is 0 as well
C13_Witness ==
    /\ DecidedNewer("percentage")
    /\ tolerance.value = [m |-> 100, e |-> 0]
    /\ decision.currentPrice.m = 0
    /\ decision.newPrice.m = 0
    /\ decision.result = "no"

SameValue(newPrice, currentPrice) ==
    /\ NumLe(PriceValue(newPrice), PriceValue(currentPrice))
    /\ NumLe(PriceValue(currentPrice), PriceValue(newPrice))

C15_SkipEndsCycle ==
    [][\A c \in Calls :
          (chain[c].pc = "query" /\ chain'[c].pc # "query") =>
              \/ /\ CycleEnds(c)
                 /\ lastOutcome' \in {"skipped_stale", "skipped_tolerance"}
                 /\ chain'[c].pc \notin {"config", "submit"}
                 /\ chain'[c].result # "rejected"
              \/ \A q \in Quotes, p \in Quotes :
                    Decisions[tolerance][q][p] \in {"stale", "within"} =>
                        ~QueryDone(c, q, p)]_vars

\* a cycle was skipped because the quote was within tolerance
C15_Witness == lastOutcome = "skipped_tolerance"

\* ---------------------------------------------------------------- C16
\* the place of a collaborator call in the cycle
StepRank(pc) ==
    CASE pc = "fetch" -> 1 [] pc = "query" -> 2 [] pc = "config" -> 3
      [] pc = "submit" -> 4 [] OTHER -> 0

\* C16: within one cycle the steps run in the order quote fetch, on-chain
\* price query (with the decision made when it resolves), config query,
\* submit: a cycle begins at the fetch (or is rejected before it), every
\* step of a running cycle either goes on to the next collaborator call or
\* ends the cycle, so no step runs twice and the submit is called at most
\* once; a failing collaborator call ends the cycle as failed at once.
C16_StepsInOrder ==
    [][\A c \in Calls :
          /\ CycleBegins(c) => chain'[c].pc \in {"fetch", "thrown"}
          /\ (InCycle(c) /\ InCycle(c)' /\ chain'[c].pc # chain[c].pc) =>
                /\ chain[c].pc # "thrown"
                /\ StepRank(chain'[c].pc) = StepRank(chain[c].pc) + 1
          /\ \/ /\ CycleEnds(c)
                /\ lastOutcome' = "failed"
                /\ ~Awaiting(c)'
             \/ ~CycleFail(c)]_vars

\* a cycle has failed and a cycle has got as far as the submit
C16_Witness ==
    /\ lastOutcome = "failed"
    /\ \E c \in Calls : chain[c].pc = "submit"

\* ---------------------------------------------------------------- C17
\* the configuration values that are not for display
Secrets == { Config[f] : f \in DOMAIN Config \ {"contractAddress"} }

\* getStatus() has exactly the four fields, shows the run flag and the
\* contract address, and none of its values is a secret
StatusIsClean ==
    /\ DOMAIN getStatus = {"isRunning", "address", "priceFeedId", "contractAddress"}
    /\ getStatus.isRunning = isRunning
    /\ getStatus.contractAddress = Config.contractAddress
    /\ \A f \in DOMAIN getStatus \ {"isRunning"} : getStatus[f] \notin Secrets

\* initialize() has run to its end (on this client, or in connect())
InitializationSucceeded == priceFeedId

\* C17 as stated: getStatus() is defined in every reachable state, has
\* exactly the fields isRunning, address, priceFeedId and contractAddress,
\* none of them a secret or another configuration field, and address and
\* priceFeedId are absent until initialization has succeeded.
C17_StatusAbsentUntilInitialized ==
    /\ StatusIsClean
    /\ ~InitializationSucceeded =>
          /\ getStatus.address = "undefined"
          /\ getStatus.priceFeedId = "undefined"

\* C17 amended: getStatus() is defined in every reachable state, has
\* exactly the four fields and shows no secret; priceFeedId is absent until
\* initialization has succeeded, address is absent only as long as no
\* initialize() has read the wallet's account: it is present while the
\* initialization is still in progress and after it has failed.
C17_StatusShowsNoSecret ==
    /\ StatusIsClean
    /\ ~InitializationSucceeded => getStatus.priceFeedId = "undefined"
    /\ InitializationSucceeded =>
          /\ getStatus.address = "address"
          /\ getStatus.priceFeedId = "priceFeedId"
    /\ getStatus.address = "undefined" =>
          \A c \in Calls :
              chain[c].pc \in {"none", "returned", "init_wallet", "rejected"}
    /\ (\E c \in Calls : chain[c].pc \in {"init_connect", "init_feed"}) =>
          getStatus.address = "address"

\* initialization has failed after the wallet step: the address is shown,
\* the feed id is not
C17_Witness ==
    /\ \E c \in Calls : chain[c].pc = "rejected"
    /\ ~InitializationSucceeded
    /\ getStatus.address = "address"
    /\ getStatus.priceFeedId = "undefined"
    /\ ~getStatus.isRunning

\* ---------------------------------------------------------------- C18
\* the body is the JSON of the status of the client as it is now
IsStatusNow(body) ==
    /\ DOMAIN body \subseteq {"isRunning", "address", "priceFeedId", "contractAddress"}
    /\ {"isRunning", "contractAddress"} \subseteq DOMAIN body
    /\ body.isRunning = isRunning
    /\ body.contractAddress = Config.contractAddress
    /\ "address" \in DOMAIN body <=> senderAddress
    /\ "priceFeedId" \in DOMAIN body <=> priceFeedId

\* the generic not-found answer
IsNotFound(r) ==
    r.code = 404 /\ r.contentType = "text/plain" /\ r.body = "Not Found"

\* C18 as stated: the server answers with the JSON status (200) if and only
\* if the request is GET /health; every other method or path gets the
\* generic 404 answer.
C18_OnlyHealthElseNotFound ==
    response.made =>
        IF response.method = "GET" /\ response.url = "/health"
        THEN response.code = 200 /\ response.contentType = "application/json"
        ELSE IsNotFound(response)

\* C18 amended: GET /health is answered with status 200 and the JSON of the
\* client's status at that moment, and no other request is; GET /metrics is
\* handed to the Prometheus exporter, which writes the answer (not the
\* status, not the generic not-found answer); every other method or path
\* gets the generic 404 answer.
C18_HealthMetricsElseNotFound ==
    [][response' # response =>
          LET r == response' IN
          /\ r.made
          /\ r.method \in Methods /\ r.url \in Urls
          /\ IF r.method = "GET" /\ r.url = "/health"
             THEN /\ r.code = 200
                  /\ r.contentType = "application/json"
                  /\ IsStatusNow(r.body)
             ELSE IF r.method = "GET" /\ r.url = "/metrics"
             THEN /\ r = getMetricsRequestHandler(r.method, r.url)
                  /\ r.contentType # "application/json"
                  /\ ~IsNotFound(r)
             ELSE IsNotFound(r)]_vars

\* GET /metrics was answered by the exporter
C18_Witness ==
    /\ response.made
    /\ response.method = "GET" /\ response.url = "/metrics"
    /\ response.body = "metrics"

\* ---------------------------------------------------------------- C19
\* C19: the run flag changes only from Stopped to Running, by a start()
\* call made while Stopped, and from Running to Stopped, by a signal firing
\* or by an initialization failing inside start(); a step in which a cycle
\* ends, a timer fires or start() is called while Running leaves it as it
\* is.  (getStatus() writes nothing.)
C19_RunStateTransitions ==
    [][/\ isRunning' # isRunning =>
             /\ \/ ~isRunning /\ isRunning' /\ StartCall
                \/ isRunning /\ ~isRunning' /\ \E c \in Calls : Abort(c)
                \/ isRunning /\ ~isRunning' /\ \E c \in Calls : InitFail(c)
             /\ \A c \in Calls : ~CycleEnds(c)
             /\ lastOutcome' = lastOutcome
             /\ timerCycles' = timerCycles
       /\ (isRunning /\ nCalls' # nCalls) => isRunning']_vars

\* Stopped, Running, Stopped by the first signal, Running again by a second
\* start()
C19_Witness ==
    /\ isRunning
    /\ aborted[1] /\ chain[1].pc \in {"cancelled", "dead"}
    /\ Entered(2)

\* ---------------------------------------------------------------- C20
\* start() call c resolves in this step, having gone past the guard
StartResolves(c) ==
    chain[c].result = "pending" /\ chain'[c].result = "resolved"

\* C20: a start() call that went past the guard resolves only in the step
\* that ends its initial cycle (submitted, skipped or failed), unless a
\* signal has fired; when it resolves and no signal has fired, that cycle
\* is the only one that has run (no timer has fired, no other call has got
\* as far as a cycle) and exactly one timer is pending, its own.
C20_ResolvesAfterInitialCycle ==
    [][\A c \in Calls :
          StartResolves(c) =>
              /\ CycleEnds(c) \/ \E d \in Calls : aborted[d]
              /\ (\A d \in Calls : ~aborted'[d]) =>
                    /\ CycleEnds(c)
                    /\ lastOutcome' \in {"submitted", "skipped_stale",
                                         "skipped_tolerance", "failed"}
                    /\ timerCycles' = 0
                    /\ \A d \in Calls \ {c} :
                          chain'[d].pc \in {"none", "returned", "rejected"}
                    /\ {d \in Calls : TimerPending(d)'} = {c}
                    /\ updateTimer' = c]_vars

\* start() has resolved after an initialization and its initial cycle, no
\* signal has fired, and its timer is pending
C20_Witness ==
    /\ \A d \in Calls : ~aborted[d]
    /\ initCalls > 0
    /\ timerCycles = 0
    /\ \E c \in Calls :
          /\ chain[c].result = "resolved"
          /\ chain[c].pc = "timer"
          /\ updateTimer = c

\* ---------------------------------------------------------------- C21
\* the signal of start() call c fired after the call and its listener ran
Cancelled(c) == Entered(c) /\ aborted[c] /\ ~chain[c].listening

\* C21: if the signal fires while start() is still initializing, then, when
\* the initialization is done, the initial cycle is not run, no timer is
\* armed, and start() resolves with the client Stopped.
C21_CancelDuringInit ==
    [][\A c \in Calls :
          (Cancelled(c) /\ InitFeedDone(c)) =>
              /\ ~InCycle(c)' /\ ~TimerPending(c)'
              /\ chain'[c].pc = "dead"
              /\ chain'[c].result = "resolved"
              /\ ~isRunning']_vars

\* ---------------------------------------------------------------- C22
\* start() call c was handed a signal that had fired before the call: its
\* listener is registered and never runs
FiredBeforeCall(c) == Entered(c) /\ aborted[c] /\ chain[c].listening

\* C22: a start() call whose signal has fired before the call executes no
\* cycle and arms no timer, and the client is Stopped when it has
\* completed.
C22_FiredSignalStartsNothing ==
    \A c \in Calls :
        FiredBeforeCall(c) =>
            /\ ~InCycle(c)
            /\ ~TimerPending(c)
            /\ chain[c].result = "resolved" => ~isRunning

\* ---------------------------------------------------------------- C23
\* C23: a cycle in flight when a signal fires is not interrupted.  The
\* firing leaves the cycle where it is; whether the client is Running or
\* Stopped, the collaborator call the cycle awaits can complete (so the
\* config query is followed by the submit while Stopped); and a cycle that
\* ends while Stopped still reports its outcome, after which its closure
\* arms no timer.
C23_CycleSurvivesCancel ==
    /\ [](\A c \in Calls :
             /\ chain[c].pc = "fetch"  => ENABLED FetchDone(c)
             /\ chain[c].pc = "query"  =>
                   ENABLED (\E q \in Quotes, p \in Quotes : QueryDone(c, q, p))
             /\ chain[c].pc = "config" => ENABLED ConfigDone(c)
             /\ chain[c].pc = "submit" => ENABLED SubmitDone(c))
    /\ [][\A c \in Calls :
             InCycle(c) =>
                /\ aborted' # aborted => chain'[c].pc = chain[c].pc
                /\ (ConfigDone(c) /\ ~isRunning) => chain'[c].pc = "submit"
                /\ (CycleEnds(c) /\ ~isRunning) =>
                      /\ lastOutcome' \in {"submitted", "skipped_stale",
                                           "skipped_tolerance", "failed"}
                      /\ chain'[c].pc = "dead"]_vars

\* the only start() was cancelled while its initial cycle was in flight, and
\* the cycle went on to submit
C23_Witness ==
    /\ nCalls = 1 /\ Cancelled(1)
    /\ ~isRunning
    /\ timerCycles = 0
    /\ chain[1].pc = "dead"
    /\ lastOutcome = "submitted"

\* ---------------------------------------------------------------- C24
\* C24: whenever the client is Stopped, no rescheduling timer is pending.
C24_StoppedHasNoTimer ==
    ~isRunning => \A c \in Calls : ~TimerPending(c)

\* ---------------------------------------------------------------- C25
\* the same value written with the mantissa multiplied by ten and the
\* exponent lowered by one
Rescaled(x, y) == y.m = 10 * x.m /\ y.e = x.e - 1 /\ y.pt = x.pt
\* the decision as the cycle acts on it
SubmitOrSkip(d) ==
    CASE d \in {"stale", "within"} -> "skip"
      [] d = "no"                  -> "submit"
      [] OTHER                     -> "failed"

\* C25: the decision depends on the values mantissa * 10^exponent only:
\* writing either price as (10 * mantissa, exponent - 1) leaves the
\* submit/skip decision as it is.
C25_RepresentationIndependent ==
    decision.made =>
        /\ \A q2 \in DecisionQuotes :
              Rescaled(decision.newPrice, q2) =>
                  SubmitOrSkip(Decisions[tolerance][q2][decision.currentPrice])
                      = SubmitOrSkip(decision.result)
        /\ \A p2 \in DecisionQuotes :
              Rescaled(decision.currentPrice, p2) =>
                  SubmitOrSkip(Decisions[tolerance][decision.newPrice][p2])
                      = SubmitOrSkip(decision.result)

\* ---------------------------------------------------------------- C26
\* C26: an accepted start() calls initialize() if and only if #cosmClient is
\* not set.  With #cosmClient set (a client made by connect()) it makes no
\* initialization call and its first step is the initial cycle; no
\* initialization step is ever taken by a start() that began connected.
C26_InitializesIffNotConnected ==
    [][\A c \in Calls :
          /\ (StartCall /\ c = nCalls' /\ Entered(c)') =>
                /\ initCalls' = initCalls + 1 <=> ~cosmClient
                /\ ~cosmClient => Initializing(c)' /\ ~InCycle(c)'
                /\ cosmClient  => InCycle(c)' /\ initCalls' = initCalls
          /\ (Initializing(c) \/ Initializing(c)') => initCalls' > 0]_vars

\* a client made by connect() was started and has finished its initial cycle
\* without any initialize() call by start()
C26_Witness ==
    /\ initCalls = 0 /\ cosmClient
    /\ nCalls = 1 /\ chain[1].result = "resolved"
    /\ chain[1].pc = "timer"
    /\ lastOutcome = "skipped_tolerance"

\* ---------------------------------------------------------------- C27
\* start() call c has succeeded
StartSucceeded(c) == Entered(c) /\ chain[c].result = "resolved"
SignalFired == \E c \in Calls : aborted[c]

\* C27: if no signal ever fires and every collaborator call settles, then
\* after a start() that succeeded every completed cycle (its timer armed) is
\* followed by the beginning of another cycle, and cycles are in flight
\* infinitely often.
C27_LoopGoesOn ==
    \A c \in Calls :
        /\ (TimerPending(c) ~> (InCycle(c) \/ SignalFired))
        /\ [](StartSucceeded(c) => []<>(InCycle(c) \/ SignalFired))

\* with no signal fired, a cycle started by the timer is in flight after the
\* count of timer cycles has reached its bound
C27_Witness ==
    /\ ~SignalFired
    /\ timerCycles = MaxTimerCycles
    /\ \E c \in Calls : StartSucceeded(c) /\ chain[c].pc = "config"

\* ---------------------------------------------------------------- C28
\* C28: under a tolerance whose type is neither absolute nor percentage, the
\* cycle that has its quote and the on-chain price ends there: as failed
\* when the quote is strictly newer, as skipped (stale) when it is not;
\* no config query and no submit is made, and the timer is armed again if
\* the client is Running.
C28_UnknownTypeFailsNewer ==
    [][tolerance.type \notin {"absolute", "percentage"} =>
          \A c \in Calls :
             /\ chain'[c].pc \notin {"config", "submit"}
             /\ (chain[c].pc = "query" /\ chain'[c].pc # "query") =>
                   /\ CycleEnds(c)
                   /\ isRunning => TimerPending(c)'
                   /\ \/ /\ lastOutcome' = "failed"
                         /\ \A q \in Quotes, p \in Quotes :
                               q.pt <= p.pt => ~QueryDone(c, q, p)
                      \/ /\ lastOutcome' = "skipped_stale"
                         /\ \A q \in Quotes, p \in Quotes :
                               q.pt > p.pt => ~QueryDone(c, q, p)]_vars

\* under an unknown tolerance type a cycle run by the timer has failed and
\* the timer is armed again
C28_Witness ==
    /\ tolerance.type = "other"
    /\ isRunning
    /\ timerCycles > 0
    /\ lastOutcome = "failed"
    /\ \E c \in Calls : TimerPending(c) /\ updateTimer = c

\* ---------------------------------------------------------------- C29
\* C29: the signal of a start() call that returned early (the client was
\* Running) or that failed in initialize() changes the RunState of no run:
\* when it fires, #isRunning stays as it is.
C29_OnlyOwnSignalStops ==
    [][\A c \in Calls :
          (aborted'[c] /\ ~aborted[c] /\ chain[c].pc \in {"returned", "rejected"})
              => isRunning' = isRunning]_vars

\* ---------------------------------------------------------------- C30
\* daemonCommand has returned or thrown
Settled == daemon.pc \in {"returned", "rejected"}
\* the server begins to listen only when client.start() has returned and
\* config.signal has not fired, and it does not listen once the signal has
\* fired
ListensAfterStartUnlessFired ==
    /\ [](aborted[1] => ~daemon.listening)
    /\ [](daemon.listening => chain[1].result = "resolved")
    /\ [][(daemon'.listening /\ ~daemon.listening) =>
             /\ chain[1].result = "resolved"
             /\ ~aborted[1] /\ ~aborted'[1]]_vars

\* C30 with "returns" taken literally: the server begins to listen only after client.start() has
\* completed and only if the signal has not fired; once the signal has fired
\* the server is closed and daemonCommand eventually returns, the server not
\* listening.
C30_ReturnsOnceFired ==
    /\ ListensAfterStartUnlessFired
    /\ (aborted[1] /\ daemon.pc # "none")
           ~> (daemon.pc = "returned" /\ ~daemon.listening)

\* C30: the server begins to listen only after client.start() has completed
\* and only if the signal has not fired; once the signal has fired the
\* server is closed and daemonCommand eventually completes, the server not
\* listening: it returns, or it throws, which it does only when
\* createHermesClient or client.start() rejected or the server could not
\* listen.
C30_SettlesOnceFired ==
    /\ ListensAfterStartUnlessFired
    /\ (aborted[1] /\ daemon.pc # "none") ~> (Settled /\ ~daemon.listening)
    /\ [][(daemon'.pc = "rejected" /\ daemon.pc # "rejected") =>
             \/ daemon.pc = "create"
             \/ daemon.pc = "start" /\ chain[1].result = "rejected"
             \/ daemon.pc = "start" /\ chain[1].result = "resolved" /\ ~aborted[1]]_vars

\* the signal fired while the server was listening: the server is closed,
\* its "close" event is due and daemonCommand is about to return
C30_Witness ==
    /\ daemon.pc = "serving"
    /\ aborted[1]
    /\ ~daemon.listening /\ daemon.closing
    /\ chain[1].result = "resolved"

====
